---- MODULE Spec2Model ----
(***************************************************************************)
(* node-config-loader: the cascading configuration loader of index.js.     *)
(*                                                                         *)
(* loadConfig(configDirectory, config, options) merges, in this order, the *)
(* caller's base config, the files of configDirectory, the files of        *)
(* configDirectory/<NODE_ENV || 'develop'>, the files of                   *)
(* configDirectory/local and the parsed database url of the environment.   *)
(*                                                                         *)
(* Values.  A JavaScript value is a record [t, s, a, m]:                   *)
(*   t = "undef"            undefined                                      *)
(*   t = "str",  s = text   a primitive (strings stand for all primitives; *)
(*                          the empty string is the falsy primitive)       *)
(*   t = "map",  m = props  a plain object                                 *)
(*   t = "arr",  a = items, m = props   an array of primitives             *)
(* Objects have identity in JavaScript.  The only identities the loader    *)
(* shares are those of the objects that source files export (node caches   *)
(* a module's exports): exports[file] is the current content of that       *)
(* object and alias[key] names the file whose exported object config[key]  *)
(* is.                                                                     *)
(***************************************************************************)
EXTENDS Integers, Sequences, FiniteSets, TLC

VARIABLES
    fs,               \* the file system: a set of [path, kind, mod] entries
    exports,          \* node's module cache: file path -> the exported object
    env,              \* process.env: variable name -> sequence of characters
    pc,               \* where the current call of loadConfig stands
    calls,            \* number of calls of loadConfig made so far
    configDirectory,  \* argument of the current call
    baseConfig,       \* argument `config` of the current call, as passed
    options,          \* argument `options` (defaults filled in by the call)
    config,           \* the accumulator object
    alias,            \* top-level key -> file whose exported object it holds
    loaded,           \* the files required by the current call, in order
    error             \* the Error the current call threw ("" if none)

vars == <<fs, exports, env, pc, calls, configDirectory, baseConfig, options,
          config, alias, loaded, error>>

----------------------------------------------------------------------------
(* Bounds *)

MaxCalls == 2

----------------------------------------------------------------------------
(* Constants of index.js *)

kDefaultDatabaseUrlEnvKey == "DATABASE_URL"

kDefaultDatabaseKey == "database"

----------------------------------------------------------------------------
(* JavaScript values *)

NoProps == [k \in {} |-> 0]

Undefined == [t |-> "undef", s |-> "", a |-> <<>>, m |-> NoProps]

Str(text) == [t |-> "str", s |-> text, a |-> <<>>, m |-> NoProps]

Obj(props) == [t |-> "map", s |-> "", a |-> <<>>, m |-> props]

Arr(items) == [t |-> "arr", s |-> "", a |-> items, m |-> NoProps]

EmptyObject == Obj(NoProps)

\* lodash isObject: arrays and plain objects, not primitives.
IsObject(v) == v.t \in {"map", "arr"}

\* JavaScript truthiness, as tested by `!config[baseName]`.
Truthy(v) == IsObject(v) \/ (v.t = "str" /\ v.s # "")

\* object[key]
Get(object, key) == IF key \in DOMAIN object.m THEN object.m[key] ELSE Undefined

\* object[key] = value
Put(object, key, value) ==
    [object EXCEPT !.m = [k \in DOMAIN object.m \cup {key} |->
                            IF k = key THEN value ELSE object.m[k]]]

Max(x, y) == IF x >= y THEN x ELSE y

----------------------------------------------------------------------------
(* lodash.merge(object, source), lodash 4: baseMerge / baseMergeDeep.       *)
(* For every key of source: a plain-object value is merged recursively     *)
(* into object[key] when that is an object and into a new {} otherwise; an *)
(* array value is merged index by index into object[key] when that is an   *)
(* array and into a new [] otherwise; any other value is assigned.  The    *)
(* nested objects of source are copied, never shared.                      *)

RECURSIVE Merge(_, _)
RECURSIVE MergeValue(_, _)

MergeItems(objItems, srcItems) ==
    [i \in 1..Max(Len(objItems), Len(srcItems)) |->
        IF i <= Len(srcItems) THEN srcItems[i] ELSE objItems[i]]

\* A variant of the merge of one value in which an array of source takes
\* the place of whatever object[key] held.
MergeValueReplacingArrays(objValue, srcValue) ==
    CASE srcValue.t = "map" ->
            Merge(IF IsObject(objValue) THEN objValue ELSE EmptyObject, srcValue)
      [] OTHER -> srcValue

MergeValue(objValue, srcValue) ==
    CASE srcValue.t = "map" ->
            Merge(IF IsObject(objValue) THEN objValue ELSE EmptyObject, srcValue)
      [] srcValue.t = "arr" ->
            Merge(IF objValue.t = "arr" THEN objValue ELSE Arr(<<>>), srcValue)
      [] OTHER -> srcValue

Merge(object, source) ==
    [object EXCEPT
        !.a = MergeItems(object.a, source.a),
        !.m = [k \in DOMAIN object.m \cup DOMAIN source.m |->
                 IF k \in DOMAIN source.m
                 THEN MergeValue(Get(object, k), source.m[k])
                 ELSE object.m[k]]]

\* merge(target, source) as the loader calls it, discarding the result: a
\* primitive target is wrapped by Object(target) and the wrapper is lost, so
\* the target is left as it was.
MergeInto(target, source) ==
    IF IsObject(target) THEN Merge(target, source) ELSE target

\* Whether merge(object, source) keeps the object held under `key` (and
\* writes into it) rather than assigning another value to the key.
KeepsIdentity(object, source, key) ==
    \/ key \notin DOMAIN source.m
    \/ source.m[key].t = "map" /\ IsObject(Get(object, key))
    \/ source.m[key].t = "arr" /\ Get(object, key).t = "arr"

----------------------------------------------------------------------------
(* Strings.  A string the loader inspects character by character (a value  *)
(* of process.env) is a sequence of one-character strings; Text turns it   *)
(* into the string it spells.                                              *)

RECURSIVE Text(_)
Text(chars) == IF chars = <<>> THEN "" ELSE Head(chars) \o Text(Tail(chars))

Digits == {"0", "1", "2", "3", "4", "5", "6", "7", "8", "9"}

\* The first position at or after `from` whose character is in `stops`, or
\* Len(chars) + 1: where a greedy run of [^stops] starting at `from` ends.
RECURSIVE RunEnd(_, _, _)
RunEnd(chars, from, stops) ==
    IF from > Len(chars) \/ chars[from] \in stops
    THEN from
    ELSE RunEnd(chars, from + 1, stops)

\* The first position at or after `from` whose character is no digit.
RECURSIVE DigitsEnd(_, _)
DigitsEnd(chars, from) ==
    IF from > Len(chars) \/ chars[from] \notin Digits
    THEN from
    ELSE DigitsEnd(chars, from + 1)

\* Whether chars holds `literal` at position `at`.
HasAt(chars, at, literal) ==
    /\ at + Len(literal) - 1 <= Len(chars)
    /\ SubSeq(chars, at, at + Len(literal) - 1) = literal

\* parseDatabaseUrl's match of
\*     /^([^:]+):\/\/([^:]+):([^@]+)@([^:]+):(\d+)\/(.+)/
\* Each of the first five groups excludes the character that must follow it,
\* so it ends at the first such character; the sixth takes the rest (the
\* strings here hold no line terminator).  The result is the sequence of the
\* six groups, or <<>> when the string does not match.
MatchDatabaseUrl(chars) ==
    LET e1 == RunEnd(chars, 1, {":"})
        b2 == e1 + 3
        e2 == RunEnd(chars, b2, {":"})
        b3 == e2 + 1
        e3 == RunEnd(chars, b3, {"@"})
        b4 == e3 + 1
        e4 == RunEnd(chars, b4, {":"})
        b5 == e4 + 1
        e5 == DigitsEnd(chars, b5)
        b6 == e5 + 1
    IN  IF /\ e1 > 1  /\ HasAt(chars, e1, <<":", "/", "/">>)
           /\ e2 > b2 /\ HasAt(chars, e2, <<":">>)
           /\ e3 > b3 /\ HasAt(chars, e3, <<"@">>)
           /\ e4 > b4 /\ HasAt(chars, e4, <<":">>)
           /\ e5 > b5 /\ HasAt(chars, e5, <<"/">>)
           /\ Len(chars) >= b6
        THEN << SubSeq(chars, 1, e1 - 1),  SubSeq(chars, b2, e2 - 1),
                SubSeq(chars, b3, e3 - 1), SubSeq(chars, b4, e4 - 1),
                SubSeq(chars, b5, e5 - 1), SubSeq(chars, b6, Len(chars)) >>
        ELSE <<>>

\* parseDatabaseUrl: the descriptor, or Undefined standing for `false`.
parseDatabaseUrl(databaseUrl) ==
    LET matches == MatchDatabaseUrl(databaseUrl)
    IN  IF matches # <<>>
        THEN Obj([dialect  |-> Str(Text(matches[1])),
                  user     |-> Str(Text(matches[2])),
                  password |-> Str(Text(matches[3])),
                  host     |-> Str(Text(matches[4])),
                  port     |-> Str(Text(matches[5])),
                  name     |-> Str(Text(matches[6]))])
        ELSE Undefined

----------------------------------------------------------------------------
(* Paths and the file system.  A file name is <<stem, extension>>          *)
(* (<<"index", ".js">>, <<"local", "">>) and a path is the sequence of the *)
(* names leading to it.  fs is the set of the entries that exist, each     *)
(* [path, kind, mod]: kind is "dir" or "file", and mod is what requiring   *)
(* the file gives: [type, value] with type "object" (module.exports is the *)
(* object `value`), "function" (module.exports is a function returning a   *)
(* new object `value` at each call), "invalid" (requiring it throws) or    *)
(* "none" (not a module).                                                  *)

NoModule == [type |-> "none", value |-> Undefined]

Dir(path) == [path |-> path, kind |-> "dir", mod |-> NoModule]

File(path, type, value) ==
    [path |-> path, kind |-> "file", mod |-> [type |-> type, value |-> value]]

\* path.resolve(directory, name)
Resolve(directory, name) == Append(directory, name)

\* fileName.endsWith('.js')
EndsWithJs(name) == name[2] = ".js"

\* path.basename(file, '.js')
Basename(file) ==
    LET name == file[Len(file)]
    IN  IF EndsWithJs(name) THEN name[1] ELSE name[1] \o name[2]

Exists(path) == \E e \in fs : e.path = path

Entry(path) == CHOOSE e \in fs : e.path = path

\* A variant of isDirectory that answers true for whatever exists, a
\* regular file included.
isDirectoryOrFile(directory) == Exists(directory)

\* isDirectory: fs.statSync throws for a path that does not exist, which is
\* caught and answered false.
isDirectory(directory) ==
    IF Exists(directory) THEN Entry(directory).kind = "dir" ELSE FALSE

\* fs.statSync(path).isFile() of an entry fs.readdirSync listed.
IsFile(path) == Entry(path).kind = "file"

\* The names fs.readdirSync(directory) returns, as a set.
EntryNames(directory) ==
    { e.path[Len(e.path)] : e \in { x \in fs : /\ Len(x.path) = Len(directory) + 1
                                               /\ SubSeq(x.path, 1, Len(directory)) = directory } }

\* All orders of a set: the sequences in which fs.readdirSync may list it.
RECURSIVE Orders(_)
Orders(S) ==
    IF S = {} THEN {<<>>}
    ELSE UNION { { <<x>> \o rest : rest \in Orders(S \ {x}) } : x \in S }

IndexJs == <<"index", ".js">>

\* What fs.readdirSync(directory) may return ({<<>>} stands for the call
\* not being made: getConfigFileNames returns before it).
Listings(directory) ==
    IF isDirectory(directory) THEN Orders(EntryNames(directory)) ELSE {<<>>}

\* The filter of getConfigFileNames: index.js is left out here, as is every
\* name that does not end in .js or is no regular file.
IsConfigFileName(directory, configFileName) ==
    /\ configFileName # IndexJs
    /\ EndsWithJs(configFileName)
    /\ IsFile(Resolve(directory, configFileName))

\* listing.filter(...).map((fileName) => path.resolve(directory, fileName))
RECURSIVE FilterAndResolve(_, _)
FilterAndResolve(directory, listing) ==
    IF listing = <<>> THEN <<>>
    ELSE (IF IsConfigFileName(directory, Head(listing))
          THEN <<Resolve(directory, Head(listing))>>
          ELSE <<>>) \o FilterAndResolve(directory, Tail(listing))

\* A variant of getConfigFileNames that puts index.js first whenever it is
\* found, asked for or not.
getConfigFileNamesWithIndex(directory, includeIndexFile, listing) ==
    IF ~isDirectory(directory) THEN <<>>
    ELSE
        LET foundIndexFile == \E i \in 1..Len(listing) : listing[i] = IndexJs
            result == FilterAndResolve(directory, listing)
        IN  IF foundIndexFile
            THEN <<Resolve(directory, IndexJs)>> \o result
            ELSE result

\* getConfigFileNames(directory, includeIndexFile), given the listing that
\* fs.readdirSync returns: the absolute paths of the directory's regular
\* *.js files other than index.js, in listing order, after index.js if
\* there is one and it is asked for.
getConfigFileNames(directory, includeIndexFile, listing) ==
    IF ~isDirectory(directory) THEN <<>>
    ELSE
        LET foundIndexFile == \E i \in 1..Len(listing) : listing[i] = IndexJs
            result == FilterAndResolve(directory, listing)
        IN  IF foundIndexFile /\ includeIndexFile
            THEN <<Resolve(directory, IndexJs)>> \o result
            ELSE result

----------------------------------------------------------------------------
(* mergeConfigFiles.  Its effect is on the accumulator and, through the    *)
(* identities the accumulator shares with the module cache, on the objects *)
(* that files export.  A loader state is                                   *)
(*   [config, alias, exports, loaded, error].                              *)

NoAlias == [k \in {} |-> <<>>]

\* An assignment config[key] = value that makes config[key] the object that
\* `file` exports (file = <<>>: an object of the call's own).
Assign(st, key, value, file) ==
    [st EXCEPT
        !.config = Put(st.config, key, value),
        !.alias  = [k \in (DOMAIN st.alias \ {key}) \cup (IF file = <<>> THEN {} ELSE {key}) |->
                       IF k = key THEN file ELSE st.alias[k]]]

\* merge(config[key], source): a write into the object config[key] holds,
\* which is also a write into the exported object it is, if it is one.
MergeUnder(st, key, source) ==
    LET merged == MergeInto(Get(st.config, key), source)
    IN  [st EXCEPT
            !.config  = Put(st.config, key, merged),
            !.exports = IF key \in DOMAIN st.alias
                        THEN [st.exports EXCEPT ![st.alias[key]] = merged]
                        ELSE st.exports]

\* merge(config, source): a write into the accumulator and into every
\* object it holds that source has a plain object (or array) for.
MergeTop(st, source) ==
    LET merged == Merge(st.config, source)
        kept   == { k \in DOMAIN st.alias : KeepsIdentity(st.config, source, k) }
    IN  [st EXCEPT
            !.config  = merged,
            !.alias   = [k \in kept |-> st.alias[k]],
            !.exports = [f \in DOMAIN st.exports |->
                            IF \E k \in kept : st.alias[k] = f
                            THEN merged.m[CHOOSE k \in kept : st.alias[k] = f]
                            ELSE st.exports[f]]]

\* The body of mergeConfigFiles' forEach for one file (lines 98-111).
MergeConfigFile(st, configFile) ==
    LET mod        == Entry(configFile).mod
        moreConfig == IF mod.type = "function" THEN mod.value
                      ELSE st.exports[configFile]
        baseName   == Basename(configFile)
        required   == [st EXCEPT !.loaded = Append(st.loaded, configFile)]
    IN  IF mod.type = "invalid"
        THEN [required EXCEPT !.error = "require"]
        ELSE IF baseName # "index"
        THEN IF ~Truthy(Get(st.config, baseName))
             THEN Assign(required, baseName, moreConfig,
                         IF mod.type = "object" THEN configFile ELSE <<>>)
             ELSE MergeUnder(required, baseName, moreConfig)
        ELSE MergeTop(required, moreConfig)

\* forEach over the files: an exception ends it.
RECURSIVE MergeEach(_, _)
MergeEach(st, configFiles) ==
    IF configFiles = <<>> \/ st.error # "" THEN st
    ELSE MergeEach(MergeConfigFile(st, Head(configFiles)), Tail(configFiles))

\* The file lists getConfigFileNames may return: one for each order in which
\* fs.readdirSync may list the directory.
ConfigFileNames(directory, includeIndexFile) ==
    { getConfigFileNames(directory, includeIndexFile, listing) :
          listing \in Listings(directory) }

\* A variant of mergeConfigFiles that lists the directory without asking
\* isDirectory first: fs.readdirSync throws on what is no directory.
mergeConfigFilesStrict(st, directory, includeIndexFile) ==
    IF ~isDirectory(directory)
    THEN { [st EXCEPT !.error = "ENOENT"] }
    ELSE { MergeEach(st, configFiles) :
              configFiles \in ConfigFileNames(directory, includeIndexFile) }

\* mergeConfigFiles(config, directory, includeIndexFile): the loader states
\* it may leave, one for each file list.
mergeConfigFiles(st, directory, includeIndexFile) ==
    { MergeEach(st, configFiles) :
          configFiles \in ConfigFileNames(directory, includeIndexFile) }

----------------------------------------------------------------------------
(* The inputs the model draws from: file systems, base configs, option     *)
(* bags and environments.  Every value a file sets is tagged with the      *)
(* directory the file is in, so that a value found in a result names the   *)
(* file it came from.                                                      *)

Root == << <<"cfg", "">> >>

Nowhere == << <<"directory-that-does-not-exist", "">> >>

DatabaseJs == <<"database", ".js">>

Sub(name) == Resolve(Root, <<name, "">>)

\* index.js exporting {name, database: {host}}
IndexWithDatabase(tag) ==
    Obj([name     |-> Str("index:" \o tag),
         database |-> Obj([host |-> Str("index:" \o tag)])])

\* index.js exporting {name}
IndexPlain(tag) == Obj([name |-> Str("index:" \o tag)])

\* database.js exporting {host}
DatabaseHost(tag) == Obj([host |-> Str(tag)])

\* database.js exporting {host, options: {ssl}, pool: [..]}
DatabaseFull(tag) ==
    Obj([host    |-> Str(tag),
         options |-> Obj([ssl |-> Str(tag)]),
         pool    |-> Arr(<<tag, tag>>)])

BaseDirectories ==
    { {Dir(Root)},
      {Dir(Root),
       File(Resolve(Root, IndexJs), "object", IndexWithDatabase("base")),
       File(Resolve(Root, DatabaseJs), "object", DatabaseHost("base"))},
      {Dir(Root),
       File(Resolve(Root, DatabaseJs), "invalid", Undefined)} }

DevelopDirectories ==
    { {},
      {Dir(Sub("develop")),
       File(Resolve(Sub("develop"), IndexJs), "object", IndexPlain("develop")),
       File(Resolve(Sub("develop"), DatabaseJs), "object", DatabaseFull("develop"))} }

StagingDirectories ==
    { {File(Sub("staging"), "none", Undefined)},
      {Dir(Sub("staging")),
       File(Resolve(Sub("staging"), IndexJs), "object", IndexWithDatabase("staging")),
       File(Resolve(Sub("staging"), DatabaseJs), "object", DatabaseHost("staging")),
       Dir(Resolve(Sub("staging"), <<"dummy", ".js">>)),
       File(Resolve(Sub("staging"), <<"notes", ".txt">>), "none", Undefined)} }

LocalDirectories ==
    { {},
      {Dir(Sub("local")),
       File(Resolve(Sub("local"), DatabaseJs), "object", DatabaseHost("local"))},
      {Dir(Sub("local")),
       File(Resolve(Sub("local"), IndexJs), "object", IndexWithDatabase("local")),
       File(Resolve(Sub("local"), DatabaseJs), "function", DatabaseHost("local"))} }

FileSystems ==
    { b \cup d \cup s \cup l : b \in BaseDirectories, d \in DevelopDirectories,
                               s \in StagingDirectories, l \in LocalDirectories }

\* The modules of a file system, each with the object it exports when it is
\* first required.
Modules(fileSystem) == { e \in fileSystem : e.mod.type # "none" }

InitialExports(fileSystem) ==
    [f \in { e.path : e \in Modules(fileSystem) } |->
        (CHOOSE e \in fileSystem : e.path = f).mod.value]

\* The `configDirectory` argument: the root, one of its entries (a directory
\* in some file systems and a regular file in the others), a path that
\* does not exist.
ConfigDirectories == {Root, Sub("staging"), Nowhere}

\* The `config` argument: omitted or null (Undefined), a primitive under the
\* database key, an object under it (with an array longer than the one a
\* file sets for the same key).
BaseConfigs ==
    { Undefined,
      Obj([database |-> Str("sqlite")]),
      Obj([database |-> Obj([host |-> Str("localhost"), user |-> Str("me"),
                             pool |-> Arr(<<"p1", "p2", "p3">>)])]) }

\* The `options` argument, each option a JavaScript value.
OptionBags ==
    { [includeRootIndex |-> Undefined, databaseUrlEnvKey |-> Undefined,
       databaseKey |-> Undefined],
      [includeRootIndex |-> Str("true"), databaseUrlEnvKey |-> Undefined,
       databaseKey |-> Undefined],
      [includeRootIndex |-> Str(""), databaseUrlEnvKey |-> Str("SPECIAL_URL"),
       databaseKey |-> Str("db")] }

Staging == <<"s", "t", "a", "g", "i", "n", "g">>

Local == <<"l", "o", "c", "a", "l">>

TestUrl == <<"p", "o", "s", "t", "g", "r", "e", "s", ":", "/", "/", "j", "o", "h", "n", "d", "o", "e", ":", "s", "e", "c", "r", "e", "t", "@", "s", "o", "m", "e", "-", "h", "o", "s", "t", ":", "1", "2", "3", "4", "/", "h", "i", "s", "-", "d", "a", "t", "a", "b", "a", "s", "e">>

InvalidUrl == <<"s", "o", "m", "e", "-", "i", "n", "v", "a", "l", "i", "d", "-", "s", "t", "r", "i", "n", "g">>

SpecialUrl == <<"m", "y", "s", "q", "l", ":", "/", "/", "r", "o", "o", "t", ":", "p", "w", "@", "d", "b", ":", "3", "3", "0", "6", "/", "a", "p", "p">>

\* process.env: NODE_ENV and DATABASE_URL unset, empty or set; SPECIAL_URL set.
Environments ==
    { [n \in {"SPECIAL_URL"} \cup nodeEnv.names \cup databaseUrl.names |->
          IF n = "NODE_ENV" THEN nodeEnv.value
          ELSE IF n = "DATABASE_URL" THEN databaseUrl.value
          ELSE SpecialUrl] :
      nodeEnv \in { [names |-> {}, value |-> <<>>] }
                  \cup { [names |-> {"NODE_ENV"}, value |-> v] : v \in {<<>>, Staging, Local} },
      databaseUrl \in { [names |-> {}, value |-> <<>>] }
                  \cup { [names |-> {"DATABASE_URL"}, value |-> v] :
                             v \in {<<>>, TestUrl, InvalidUrl} } }

\* process.env[name]: <<>> stands for undefined as well as for ''.
EnvValue(name) == IF name \in DOMAIN env THEN env[name] ELSE <<>>

----------------------------------------------------------------------------
(* The loader: one call of module.exports, step by step.                   *)
(*   pc = "idle"         no call made yet                                  *)
(*        "base"         past the validation and the defaults (line 37)    *)
(*        "environment"  the base directory is merged (line 63)            *)
(*        "local"        the environment directory is merged (line 68)     *)
(*        "database"     the local directory is merged (line 73)           *)
(*        "returned"     the call returned config                          *)
(*        "thrown"       the call threw `error`                            *)

NoOptions ==
    [includeRootIndex |-> Undefined, databaseUrlEnvKey |-> Undefined,
     databaseKey |-> Undefined]

Init ==
    /\ fs \in FileSystems
    /\ exports = InitialExports(fs)
    /\ env = [n \in {} |-> <<>>]
    /\ pc = "idle"
    /\ calls = 0
    /\ configDirectory = Root
    /\ baseConfig = Undefined
    /\ options = NoOptions
    /\ config = Undefined
    /\ alias = NoAlias
    /\ loaded = <<>>
    /\ error = ""

LoaderState ==
    [config |-> config, alias |-> alias, exports |-> exports,
     loaded |-> loaded, error |-> error]

\* The loader state after a step, and where the call stands then.
Becomes(st, next) ==
    /\ config' = st.config
    /\ alias' = st.alias
    /\ exports' = st.exports
    /\ loaded' = st.loaded
    /\ error' = st.error
    /\ pc' = IF st.error # "" THEN "thrown" ELSE next

\* !!value
ToBoolean(value) == IF Truthy(value) THEN Str("true") ELSE Str("")

\* Lines 31-35: the defaults, written into the options object.
WithDefaults(opts) ==
    [includeRootIndex  |-> ToBoolean(opts.includeRootIndex),
     databaseUrlEnvKey |-> IF ~Truthy(opts.databaseUrlEnvKey)
                           THEN Str(kDefaultDatabaseUrlEnvKey)
                           ELSE opts.databaseUrlEnvKey,
     databaseKey       |-> IF ~Truthy(opts.databaseKey)
                           THEN Str(kDefaultDatabaseKey)
                           ELSE opts.databaseKey]

\* A call loadConfig(directory, cfg, opts) with process.env = environment:
\* lines 24-35.
Call(directory, cfg, opts, environment) ==
    /\ pc = "idle"
    /\ calls < MaxCalls
    /\ calls' = calls + 1
    /\ env' = environment
    /\ configDirectory' = directory
    /\ baseConfig' = cfg
    /\ loaded' = <<>>
    /\ alias' = NoAlias
    /\ IF ~isDirectory(directory)
       THEN /\ pc' = "thrown"
            /\ error' = "is not a valid directory"
            /\ config' = cfg
            /\ options' = opts
       ELSE /\ pc' = "base"
            /\ error' = ""
            /\ config' = IF ~Truthy(cfg) THEN EmptyObject ELSE cfg
            /\ options' = WithDefaults(opts)
    /\ UNCHANGED <<fs, exports>>

\* Line 38: mergeConfigFiles(config, configDirectory, options.includeRootIndex)
LoadBase ==
    /\ pc = "base"
    /\ \E st \in mergeConfigFiles(LoaderState, configDirectory, Truthy(options.includeRootIndex)) :
          Becomes(st, "environment")
    /\ UNCHANGED <<fs, env, calls, configDirectory, baseConfig, options>>

\* Line 63: process.env.NODE_ENV || 'develop'
environmentName ==
    IF EnvValue("NODE_ENV") # <<>> THEN Text(EnvValue("NODE_ENV")) ELSE "develop"

environmentConfigDirectory == Resolve(configDirectory, <<environmentName, "">>)

localConfigDirectory == Resolve(configDirectory, <<"local", "">>)

\* Line 66: mergeConfigFiles(config, environmentConfigDirectory)
LoadEnvironment ==
    /\ pc = "environment"
    /\ \E st \in mergeConfigFiles(LoaderState, environmentConfigDirectory, TRUE) :
          Becomes(st, "local")
    /\ UNCHANGED <<fs, env, calls, configDirectory, baseConfig, options>>

\* Line 71: mergeConfigFiles(config, localConfigDirectory)
LoadLocal ==
    /\ pc = "local"
    /\ \E st \in mergeConfigFiles(LoaderState, localConfigDirectory, TRUE) :
          Becomes(st, "database")
    /\ UNCHANGED <<fs, env, calls, configDirectory, baseConfig, options>>

\* Line 74: process.env[options.databaseUrlEnvKey]
databaseUrl == EnvValue(options.databaseUrlEnvKey.s)

\* A variant of lines 75-84 that takes a database url that does not parse
\* for none.
ApplyDatabaseUrlLenient(st) ==
    IF databaseUrl = <<>> THEN st
    ELSE
        LET databaseConfigFromUrl == parseDatabaseUrl(databaseUrl)
            databaseKey == options.databaseKey.s
        IN  IF databaseConfigFromUrl = Undefined
            THEN st
            ELSE IF ~Truthy(Get(st.config, databaseKey))
            THEN Assign(st, databaseKey, databaseConfigFromUrl, <<>>)
            ELSE MergeUnder(st, databaseKey, databaseConfigFromUrl)

\* Lines 75-84, given the loader state before them.
ApplyDatabaseUrl(st) ==
    IF databaseUrl = <<>> THEN st
    ELSE
        LET databaseConfigFromUrl == parseDatabaseUrl(databaseUrl)
            databaseKey == options.databaseKey.s
        IN  IF databaseConfigFromUrl = Undefined
            THEN [st EXCEPT !.error = "Invalid database environment variable"]
            ELSE IF ~Truthy(Get(st.config, databaseKey))
            THEN Assign(st, databaseKey, databaseConfigFromUrl, <<>>)
            ELSE MergeUnder(st, databaseKey, databaseConfigFromUrl)

\* Lines 73-86: the database url of the environment, and the return.
LoadDatabaseUrl ==
    /\ pc = "database"
    /\ Becomes(ApplyDatabaseUrl(LoaderState), "returned")
    /\ UNCHANGED <<fs, env, calls, configDirectory, baseConfig, options>>

\* Between two calls the caller is done with the result of the first, and
\* the variables of the environment are deleted (the tests' beforeEach and
\* cleanEnvironment).  The module cache stays.
Cleanup ==
    /\ pc \in {"returned", "thrown"}
    /\ pc' = "idle"
    /\ env' = [n \in {} |-> <<>>]
    /\ configDirectory' = Root
    /\ baseConfig' = Undefined
    /\ options' = NoOptions
    /\ config' = Undefined
    /\ alias' = NoAlias
    /\ loaded' = <<>>
    /\ error' = ""
    /\ UNCHANGED <<fs, exports, calls>>

Next ==
    \/ \E directory \in ConfigDirectories, cfg \in BaseConfigs,
          opts \in OptionBags, environment \in Environments :
          Call(directory, cfg, opts, environment)
    \/ LoadBase
    \/ LoadEnvironment
    \/ LoadLocal
    \/ LoadDatabaseUrl
    \/ Cleanup

Spec == Init /\ [][Next]_vars

----------------------------------------------------------------------------
(* What the properties speak of.                                           *)
(*                                                                         *)
(* A leaf of a value is <<path, text>>: the primitive `text` found by      *)
(* following the keys (and, in an array, the indices) of `path`.  A layer  *)
(* or a file "sets" the leaves of what it contributes, and a value "holds" *)
(* what a layer set when it has those leaves.                              *)

IndexKey(i) == <<"0", "1", "2", "3", "4", "5", "6", "7", "8", "9">>[i]

RECURSIVE Leaves(_, _)
Leaves(value, path) ==
    CASE value.t = "str" -> {<<path, value.s>>}
      [] value.t = "undef" -> {}
      [] OTHER ->
            UNION ( { Leaves(value.m[k], Append(path, k)) : k \in DOMAIN value.m }
                    \cup { { <<Append(path, IndexKey(i)), value.a[i]>> } :
                               i \in 1..Len(value.a) } )

LeavesOf(value) == Leaves(value, <<>>)

IsPrefix(p, q) == Len(p) <= Len(q) /\ SubSeq(q, 1, Len(p)) = p

\* Two leaves are of the same key when one's path leads to the other's.
SameKey(leaf, other) == IsPrefix(leaf[1], other[1]) \/ IsPrefix(other[1], leaf[1])

Range(seq) == { seq[i] : i \in 1..Len(seq) }

IsDirectoryEntry(path) == Exists(path) /\ Entry(path).kind = "dir"

IsModule(path) == Exists(path) /\ Entry(path).mod.type \in {"object", "function"}

\* What a source file says: the object its text exports or returns.
Source(file) == Entry(file).mod.value

\* The regular *.js files of a directory other than index.js.
NamedFiles(directory) ==
    IF IsDirectoryEntry(directory)
    THEN { Resolve(directory, name) : name \in { n \in EntryNames(directory) :
              n # IndexJs /\ n[2] = ".js" /\ Entry(Resolve(directory, n)).kind = "file" } }
    ELSE {}

HasIndex(directory) ==
    IsDirectoryEntry(directory) /\ Exists(Resolve(directory, IndexJs))

\* The leaves the named files of a directory set, each under its base name.
NamedLeaves(directory) ==
    UNION { Leaves(Source(f), <<f[Len(f)][1]>>) : f \in NamedFiles(directory) }

\* The leaves the index.js of a directory sets.
IndexLeaves(directory) ==
    IF HasIndex(directory) THEN LeavesOf(Source(Resolve(directory, IndexJs))) ELSE {}

\* The leaves a directory sets as a layer: those of its named files, and
\* those of its index.js that no named file sets anew.
LayerLeaves(directory) ==
    NamedLeaves(directory)
    \cup { leaf \in IndexLeaves(directory) :
              \A other \in NamedLeaves(directory) : ~SameKey(leaf, other) }

\* The directory that the step taken from a state with this pc merges.
DirectoryOf(at) ==
    CASE at = "base" -> configDirectory
      [] at = "environment" -> environmentConfigDirectory
      [] OTHER -> localConfigDirectory

\* A step that merged a directory and did not throw.
Merged(at) ==
    /\ pc = at
    /\ pc' = (CASE at = "base" -> "environment"
                [] at = "environment" -> "local"
                [] OTHER -> "database")

\* The files the step required, in order.
Required == [i \in 1..(Len(loaded') - Len(loaded)) |-> loaded'[Len(loaded) + i]]

\* The leaves of `before` whose key is none that `set` sets.
Untouched(before, set) ==
    { leaf \in before : \A other \in set : ~SameKey(leaf, other) }

EnvironmentNames == {"develop", "staging"}

\* The texts that the files of a directory set.
TextsOf(directory) ==
    { leaf[2] : leaf \in IndexLeaves(directory) \cup NamedLeaves(directory) }

----------------------------------------------------------------------------
(* Properties *)

\* C1: when the environment directory or the local directory has been
\* merged, the accumulator holds every leaf that the layer's files set,
\* whatever the earlier layers and the base config set for the same key,
\* and it still holds every leaf of the earlier layers whose key the layer
\* does not set.
C1_LaterLayerOverrides ==
    [][ \A at \in {"environment", "local"} :
          Merged(at) =>
            /\ LayerLeaves(DirectoryOf(at)) \subseteq LeavesOf(config')
            /\ Untouched(LeavesOf(config), LayerLeaves(DirectoryOf(at)))
                  \subseteq LeavesOf(config') ]_vars

\* C2: when a directory is merged with its index.js, index.js is required
\* first and once, whatever the order of the listing, and for every key that
\* both index.js and a named file set the accumulator then holds the named
\* file's leaf.
C2_NamedFileOverridesIndex ==
    [][ \A at \in {"base", "environment", "local"} :
          ( /\ Merged(at)
            /\ HasIndex(DirectoryOf(at))
            /\ (at = "base" => Truthy(options.includeRootIndex)) ) =>
            /\ Len(Required) >= 1
            /\ Required[1] = Resolve(DirectoryOf(at), IndexJs)
            /\ \A i \in 2..Len(Required) : Required[i] # Required[1]
            /\ \A leaf \in NamedLeaves(DirectoryOf(at)) :
                  (\E other \in IndexLeaves(DirectoryOf(at)) : other[1] = leaf[1])
                     => leaf \in LeavesOf(config') ]_vars

\* C3: when the variable named by databaseUrlEnvKey holds a string that
\* parses, the call returns and the accumulator holds, under databaseKey,
\* every field of the parsed descriptor, whatever it held there before; the
\* leaves whose key the descriptor does not set are kept.
C3_DatabaseUrlOverrides ==
    [][ ( /\ pc = "database"
          /\ databaseUrl # <<>>
          /\ parseDatabaseUrl(databaseUrl) # Undefined ) =>
          LET set == Leaves(parseDatabaseUrl(databaseUrl), <<options.databaseKey.s>>)
          IN  /\ pc' = "returned"
              /\ set \subseteq LeavesOf(config')
              /\ Untouched(LeavesOf(config), set) \subseteq LeavesOf(config') ]_vars

\* C4: at line 74, a non-empty value of the variable named by
\* databaseUrlEnvKey that does not parse makes the call throw; a variable
\* that is unset or empty makes it return the accumulator as the file layers
\* left it.
C4_DatabaseUrlValidation ==
    [][ pc = "database" =>
          LET key == options.databaseUrlEnvKey.s
              set == key \in DOMAIN env /\ env[key] # <<>>
          IN  /\ (set /\ parseDatabaseUrl(env[key]) = Undefined)
                    => (pc' = "thrown" /\ error' # "")
              /\ ~set => (pc' = "returned" /\ error' = "" /\ config' = config) ]_vars

\* C4: a call that threw on an invalid database url.
C4_Witness ==
    /\ pc = "thrown"
    /\ error = "Invalid database environment variable"
    /\ "DATABASE_URL" \in DOMAIN env
    /\ env["DATABASE_URL"] = InvalidUrl

\* C5: once the environment layer is merged, no file of another environment
\* directory has been required and the accumulator holds no text that only
\* the files of another environment directory set.
C5_OnlySelectedEnvironment ==
    pc \in {"local", "database", "returned"} =>
        \A name \in EnvironmentNames \ {environmentName} :
            LET other == Resolve(configDirectory, <<name, "">>)
            IN  /\ \A f \in Range(loaded) : ~IsPrefix(other, f)
                /\ \A leaf \in LeavesOf(config) : leaf[2] \notin TextsOf(other)

\* C6: when a directory has been merged, the accumulator holds, under the
\* base name of each named file required, every leaf of the fragment that
\* the file gave, whatever it held under that name before, and at the top
\* level every leaf of the index fragment that no named file set anew.
C6_FragmentMergedUnderKey ==
    [][ \A at \in {"base", "environment", "local"} :
          Merged(at) =>
            LET Fragment(f) == IF Entry(f).mod.type = "function"
                               THEN Source(f) ELSE exports'[f]
                Set(f) == IF Basename(f) = "index"
                          THEN LeavesOf(Fragment(f))
                          ELSE Leaves(Fragment(f), <<Basename(f)>>)
                named == UNION { Set(f) : f \in { g \in Range(Required) :
                                                     Basename(g) # "index" } }
            IN  \A f \in Range(Required) :
                   IF Basename(f) # "index"
                   THEN Set(f) \subseteq LeavesOf(config')
                   ELSE Untouched(Set(f), named) \subseteq LeavesOf(config') ]_vars

\* C7: a call whose includeRootIndex is omitted or false never requires the
\* index.js of configDirectory and its accumulator holds no text that only
\* that file sets; the index.js of the environment directory and that of
\* the local directory are required whenever the directory has one, and the
\* accumulator then holds what they set.
C7_RootIndexOnlyOnRequest ==
    /\ (pc \in {"environment", "local", "database", "returned"}
          /\ ~Truthy(options.includeRootIndex)) =>
            /\ Resolve(configDirectory, IndexJs) \notin Range(loaded)
            /\ \A leaf \in LeavesOf(config) :
                  leaf[2] \notin { l[2] : l \in IndexLeaves(configDirectory) }
    /\ (pc = "local" /\ HasIndex(environmentConfigDirectory)) =>
            /\ Resolve(environmentConfigDirectory, IndexJs) \in Range(loaded)
            /\ Untouched(IndexLeaves(environmentConfigDirectory),
                         NamedLeaves(environmentConfigDirectory))
                  \subseteq LeavesOf(config)
    /\ (pc = "database" /\ HasIndex(localConfigDirectory)) =>
            /\ Resolve(localConfigDirectory, IndexJs) \in Range(loaded)
            /\ Untouched(IndexLeaves(localConfigDirectory),
                         NamedLeaves(localConfigDirectory))
                  \subseteq LeavesOf(config)

\* C7: a call without includeRootIndex returned, the base directory has an
\* index.js, and the index.js of the environment directory was required.
C7_Witness ==
    /\ pc = "returned"
    /\ ~Truthy(options.includeRootIndex)
    /\ HasIndex(configDirectory)
    /\ Resolve(environmentConfigDirectory, IndexJs) \in Range(loaded)

\* C8: a call whose configDirectory does not exist or is no directory has
\* thrown, with no file required and the base config as it was passed.
C8_InvalidDirectoryFailsFast ==
    (pc # "idle" /\ ~IsDirectoryEntry(configDirectory)) =>
        /\ pc = "thrown"
        /\ error = "is not a valid directory"
        /\ loaded = <<>>
        /\ config = baseConfig
        /\ alias = NoAlias

\* C8: a call on a regular file threw, with a base config and a database url
\* at hand.
C8_Witness ==
    /\ pc = "thrown"
    /\ Exists(configDirectory)
    /\ ~IsDirectoryEntry(configDirectory)
    /\ Truthy(baseConfig)
    /\ "DATABASE_URL" \in DOMAIN env
    /\ env["DATABASE_URL"] = TestUrl

\* C9: merging an environment directory or a local directory that does not
\* exist, or is no directory, does not throw and leaves the accumulator as
\* it was; and a call with no base config, on directories without files and
\* with no database url, returns the empty object.
C9_MissingDirectoriesAreSkipped ==
    [][ /\ \A at \in {"environment", "local"} :
              (pc = at /\ ~IsDirectoryEntry(DirectoryOf(at))) =>
                  /\ Merged(at)
                  /\ config' = config
                  /\ loaded' = loaded
        /\ ( /\ pc' = "returned"
             /\ ~Truthy(baseConfig)
             /\ NamedFiles(configDirectory) = {}
             /\ ~(HasIndex(configDirectory) /\ Truthy(options.includeRootIndex))
             /\ ~IsDirectoryEntry(environmentConfigDirectory)
             /\ ~IsDirectoryEntry(localConfigDirectory)
             /\ databaseUrl = <<>> ) => config' = EmptyObject ]_vars

\* C9: a call returned the empty object although neither the environment
\* directory nor the local directory is a directory.
C9_Witness ==
    /\ pc = "returned"
    /\ config = EmptyObject
    /\ Exists(environmentConfigDirectory)
    /\ ~IsDirectoryEntry(environmentConfigDirectory)
    /\ ~Exists(localConfigDirectory)

\* C10: the object a source file exports is never modified, and what a call
\* returns holds no field of a database url when the environment of that
\* call has none.
C10_NoStateOutlivesCall ==
    /\ \A f \in DOMAIN exports : exports[f] = InitialExports(fs)[f]
    /\ (pc = "returned" /\ databaseUrl = <<>>) =>
          \A leaf \in LeavesOf(config) :
              leaf[2] \notin { l[2] : l \in LeavesOf(parseDatabaseUrl(TestUrl))
                                            \cup LeavesOf(parseDatabaseUrl(SpecialUrl)) }

\* The value found by following the keys of `path` from `value`.
RECURSIVE At(_, _)
At(value, path) ==
    IF path = <<>> THEN value ELSE At(Get(value, Head(path)), Tail(path))

\* The paths of `value`, below `path`, at which it holds an array.
RECURSIVE ArrayPaths(_, _)
ArrayPaths(value, path) ==
    IF value.t # "map" THEN {}
    ELSE UNION { IF value.m[k].t = "arr" THEN {Append(path, k)}
                 ELSE ArrayPaths(value.m[k], Append(path, k)) : k \in DOMAIN value.m }

\* The arrays that the named files required by the step merge into a
\* mapping the accumulator holds: <<path, items of the file's array>>.
ArraysMerged ==
    UNION { { <<p, At(Obj([k \in {Basename(f)} |-> exports[f]]), p).a>> :
                 p \in { q \in ArrayPaths(exports[f], <<Basename(f)>>) :
                            At(config, SubSeq(q, 1, Len(q) - 1)).t = "map" } } :
            f \in { g \in Range(Required) :
                      Basename(g) # "index" /\ Entry(g).mod.type = "object" } }

\* The local directory merged a second time: NODE_ENV is local.
MergedTwice == Merged("local") /\ environmentName = "local"

\* C11 as stated: when a step merges a file's array into a mapping of the
\* accumulator, the accumulator then holds exactly the file's array at that
\* key, whatever array it held there before; and merging the local
\* directory a second time leaves the accumulator as it was.
C11_ArraysReplacedWholesale ==
    [][ /\ \A at \in {"base", "environment", "local"} :
              Merged(at) =>
                 \A array \in ArraysMerged :
                    At(config', array[1]) = Arr(array[2])
        /\ MergedTwice => config' = config ]_vars

\* C11 amended: when a step merges a file's array into a mapping of the
\* accumulator, the accumulator then holds an array that has the file's
\* items at their indices and, at the indices beyond the file's array, the
\* items the accumulator held there before (the file's array alone when it
\* held no array there); and merging the local directory a second time
\* leaves the accumulator as it was.
C11_ArraysMergedByIndex ==
    [][ /\ \A at \in {"base", "environment", "local"} :
              Merged(at) =>
                 \A array \in ArraysMerged :
                    LET before == At(config, array[1])
                        after  == At(config', array[1])
                    IN  /\ after.t = "arr"
                        /\ Len(after.a) =
                              Max(Len(array[2]),
                                  IF before.t = "arr" THEN Len(before.a) ELSE 0)
                        /\ \A i \in 1..Len(after.a) :
                              after.a[i] = IF i <= Len(array[2])
                                           THEN array[2][i] ELSE before.a[i]
        /\ MergedTwice => config' = config ]_vars

\* C11: the environment directory has been merged, its database.js set a
\* two-item array where the base config held three items, and the third is
\* still there after the file's two.
C11_Witness ==
    /\ pc = "local"
    /\ At(baseConfig, <<"database", "pool">>) = Arr(<<"p1", "p2", "p3">>)
    /\ At(config, <<"database", "pool">>) = Arr(<<"develop", "develop", "p3">>)

====
